---- MODULE Spec2Model ----
(***************************************************************************)
(* A model of makemore-rs: the Vocabulary (src/src/vocabulary.rs), the     *)
(* BigramModel (src/src/bigrams.rs: counting, normalising, multinomial     *)
(* sampling) and the name-generation loop of the examples.                 *)
(*                                                                         *)
(* Characters are one-character strings.  A name is a sequence of          *)
(* characters, a corpus a sequence of names.  Rust indices are 0-based;    *)
(* TLA+ sequences are 1-based, so element i of a Vec v is v[i + 1].        *)
(***************************************************************************)
EXTENDS Integers, Sequences, FiniteSets, TLC

\* ------------------------------------------------------------------ bounds

\* The largest number of bigram windows of a corpus: a name of n characters
\* has n + 1 of them.
MaxWindows == 6

\* The largest weight of a distribution handed to multinomial, in steps of
\* two units, so that a draw can fall strictly between two cumulative sums.
MaxWeight == 2

\* The longest distribution handed to multinomial.
MaxDistLen == 3

\* The largest num_samples handed to multinomial.
MaxSamples == 2

\* The largest number of windows of a corpus a name generator is built from.
MaxGenWindows == 3

\* The safety bound on the length of a generated name.
SafetyBound == 3

\* The largest numbers of rows and of columns of a matrix handed to
\* multinomial.
MaxRows == 2

MaxCols == 2

\* The longest distribution two concurrent calls of multinomial sample, and
\* the largest num_samples of such a call.
MaxThreadLen == 2

MaxThreadSamples == 2

\* The largest number of windows of a corpus, where the corpus a model is
\* built from and the corpora it is later handed are chosen apart.
MaxCallWindows == 2

\* ------------------------------------------------------- characters, names

\* The characters names are drawn from: the boundary character and letters.
Chars == {".", "a", "b", "c"}

\* The code point of a character: String's Ord compares one-character
\* strings by code point.
CodePoint(c) ==
    CASE c = "." -> 46
      [] c = "a" -> 97
      [] c = "b" -> 98
      [] c = "c" -> 99

\* NameItem { name }: the strings of n characters.
NameItem(n) == [1..n -> Chars]

\* The corpora a caller passes, &[NameItem]: every sequence of names with at
\* most w windows.
RECURSIVE CorporaUpTo(_)
CorporaUpTo(w) ==
    {<<>>} \cup
    UNION {{<<name>> \o rest : name \in NameItem(n),
                               rest \in CorporaUpTo(w - n - 1)} :
           n \in 0..(w - 1)}

Corpora == CorporaUpTo(MaxWindows)

Range(s) == {s[k] : k \in DOMAIN s}

\* ------------------------------------------------------------- vocabulary

\* The characters of the first name only.
CharSet_FirstName(ns) == IF ns = <<>> THEN {} ELSE Range(ns[1])

\* names.iter().flat_map(|name| name.name.chars()) ... collect::<HashSet<_>>()
CharSet(ns) == UNION {Range(ns[n]) : n \in DOMAIN ns}

\* The orders in which a HashSet may be iterated: every enumeration of its
\* elements, each once.
IterOrders(S) ==
    {o \in [1..Cardinality(S) -> S] : \A x \in S : \E k \in DOMAIN o : o[k] = x}

\* The comparator handed to sort_by.
CharCmp(a, b) ==
    IF a = "." THEN "Less"
    ELSE IF b = "." THEN "Greater"
    ELSE IF CodePoint(a) < CodePoint(b) THEN "Less"
    ELSE IF CodePoint(a) > CodePoint(b) THEN "Greater"
    ELSE "Equal"

\* One insertion of the stable sort: x moves left past every element it
\* compares Less than.
RECURSIVE InsertSorted(_, _)
InsertSorted(s, x) ==
    IF s = <<>> THEN <<x>>
    ELSE IF CharCmp(x, s[Len(s)]) = "Less"
         THEN Append(InsertSorted(SubSeq(s, 1, Len(s) - 1), x), s[Len(s)])
         ELSE Append(s, x)

\* chars.sort_by(cmp): slices this short are sorted by insertion.
RECURSIVE SortBy(_)
SortBy(s) ==
    IF s = <<>> THEN <<>>
    ELSE InsertSorted(SortBy(SubSeq(s, 1, Len(s) - 1)), s[Len(s)])

\* Vocabulary::build_chars, given the order the HashSet is iterated in:
\* the distinct characters, then one ".", sorted.
build_chars(ns, order) == SortBy(Append(order, "."))

\* chars.iter().enumerate().map(|(i, c)| (c.clone(), i)).collect(): a later
\* entry with the same key replaces an earlier one.
CollectCharToIdx(chars) ==
    [c \in Range(chars) |->
        CHOOSE i \in 0..(Len(chars) - 1) :
            /\ chars[i + 1] = c
            /\ \A j \in (i + 1)..(Len(chars) - 1) : chars[j + 1] # c]

\* Vocabulary::new, given the HashSet's iteration order.
VocabularyNew(ns, order) ==
    LET chars == build_chars(ns, order)
    IN  [chars |-> chars, char_to_idx |-> CollectCharToIdx(chars)]

get_size(v) == Len(v.chars)

\* --------------------------------------------------------------- options

\* Option<T>.
None == [is_some |-> FALSE]

Some(x) == [is_some |-> TRUE, value |-> x]

\* -------------------------------------------------------------- f32 values

\* f32 carries 24 significant bits: integers up to 2^24 are exact, and a
\* quotient in [0, 1] is the true quotient rounded to 24 bits.  Quotients are
\* kept in units of 2^-24.
F32Exact == 16777216

\* current + 1.0 in f32: exact below 2^24, absorbed from there on.
F32Add1(x) == IF x >= F32Exact THEN x ELSE x + 1

\* An f32 that is a number (q units of 2^-24) or NaN.
F32(q) == [nan |-> FALSE, q |-> q]

NaN == [nan |-> TRUE, q |-> 0]

\* x / y in f32 for 0 <= x <= y: 0/0 is NaN, otherwise the quotient rounded
\* to the nearest unit.
F32Div(x, y) ==
    IF y = 0 THEN NaN ELSE F32((2 * x * F32Exact + y) \div (2 * y))

\* ---------------------------------------------------------------- counting

\* tokenize without the closing boundary symbol.
tokenize_NoEnd(chars) == <<".">> \o chars

\* tokenize without the opening boundary symbol.
tokenize_NoStart(chars) == chars \o <<".">>

\* tokenize that gives no tokens for the empty name.
tokenize_SkipEmpty(chars) ==
    IF chars = <<>> THEN <<>> ELSE <<".">> \o chars \o <<".">>

\* BigramModel::tokenize: the name between two boundary symbols.
tokenize(chars) == <<".">> \o chars \o <<".">>

\* tokens.windows(2), also tokens.zip(tokens.skip(1)).
Windows(tokens) == [k \in 1..(Len(tokens) - 1) |-> <<tokens[k], tokens[k + 1]>>]

RECURSIVE Concat(_)
Concat(ns) == IF ns = <<>> THEN <<>> ELSE Head(ns) \o Concat(Tail(ns))

\* The corpus tokenized as one string instead of name by name.
AllWindows_Joined(ns) ==
    IF ns = <<>> THEN <<>> ELSE Windows(tokenize(Concat(ns)))

\* The windows of every name of the corpus, in the order they are visited.
RECURSIVE AllWindows(_)
AllWindows(ns) ==
    IF ns = <<>> THEN <<>>
    ELSE Windows(tokenize(Head(ns))) \o AllWindows(Tail(ns))

\* *acc.entry((t1, t2)).or_insert(0) += 1
EntryIncrement(acc, key) ==
    IF key \in DOMAIN acc THEN [acc EXCEPT ![key] = @ + 1]
    ELSE [k \in DOMAIN acc \cup {key} |-> IF k = key THEN 1 ELSE acc[k]]

RECURSIVE FoldCounts(_, _)
FoldCounts(acc, ws) ==
    IF ws = <<>> THEN acc
    ELSE FoldCounts(EntryIncrement(acc, Head(ws)), Tail(ws))

\* HashMap::new()
EmptyMap == [k \in {} |-> 0]

\* BigramModel::compute_bigram_counts
compute_bigram_counts(ns) == FoldCounts(EmptyMap, AllWindows(ns))

\* Tensor::zeros((vocab_size, vocab_size), DType::F32, device)
Zeros(n) == [ij \in (0..(n - 1)) \X (0..(n - 1)) |-> 0]

\* One pass of the inner loop: read cell (i, j), write it back plus one.
SliceAssignIncrement(t, c2i, w) ==
    LET i == c2i[w[1]]
        j == c2i[w[2]]
    IN  [t EXCEPT ![<<i, j>>] = F32Add1(t[<<i, j>>])]

RECURSIVE FoldTensor(_, _, _)
FoldTensor(t, c2i, ws) ==
    IF ws = <<>> THEN t
    ELSE FoldTensor(SliceAssignIncrement(t, c2i, Head(ws)), c2i, Tail(ws))

\* char_to_idx[&window[k]] panics on a character that is not a key.
HasUnknownSymbol(v, ns) ==
    \E k \in DOMAIN AllWindows(ns) :
        \E m \in 1..2 : AllWindows(ns)[k][m] \notin DOMAIN v.char_to_idx

\* The loop of compute_tensor_frequencies: the tensor handed to count_tensor.
BigramTensor(v, ns) ==
    FoldTensor(Zeros(get_size(v)), v.char_to_idx, AllWindows(ns))

\* sync_counts_from_tensor without the test count > 0: every cell is kept.
sync_counts_from_tensor_KeepsZeros(v, t) ==
    LET n == get_size(v)
        Cells == (0..(n - 1)) \X (0..(n - 1))
        Key(ij) == <<v.chars[ij[1] + 1], v.chars[ij[2] + 1]>>
        Later(a, b) == a[1] > b[1] \/ (a[1] = b[1] /\ a[2] > b[2])
    IN  [k \in {Key(ij) : ij \in Cells} |->
            LET last == CHOOSE ij \in Cells :
                            /\ Key(ij) = k
                            /\ \A o \in Cells :
                                   Key(o) = k /\ o # ij => Later(ij, o)
            IN  t[last]]

\* BigramModel::sync_counts_from_tensor: the cells that are positive, keyed by
\* their pair of symbols; cells are visited in row-major order and a later
\* cell with the same key replaces an earlier one.
sync_counts_from_tensor(v, t) ==
    LET n == get_size(v)
        Positive == {ij \in (0..(n - 1)) \X (0..(n - 1)) : t[ij] > 0}
        Key(ij) == <<v.chars[ij[1] + 1], v.chars[ij[2] + 1]>>
        Later(a, b) == a[1] > b[1] \/ (a[1] = b[1] /\ a[2] > b[2])
    IN  [k \in {Key(ij) : ij \in Positive} |->
            LET last == CHOOSE ij \in Positive :
                            /\ Key(ij) = k
                            /\ \A o \in Positive :
                                   Key(o) = k /\ o # ij => Later(ij, o)
            IN  t[last]]

\* ------------------------------------------------------------ normalising

\* probs.sum_keepdim(1): the sum of row i.
RECURSIVE SumTo(_, _)
SumTo(f, n) == IF n < 0 THEN 0 ELSE f[n] + SumTo(f, n - 1)

RowSum(t, n, i) == SumTo([j \in 0..(n - 1) |-> t[<<i, j>>]], n - 1)

ColSum(t, n, j) == SumTo([i \in 0..(n - 1) |-> t[<<i, j>>]], n - 1)

\* Every cell over the sum of its column: the sum taken along dimension 0.
Normalized_ByColumn(t, n) ==
    [ij \in (0..(n - 1)) \X (0..(n - 1)) |-> F32Div(t[ij], ColSum(t, n, ij[2]))]

\* probs.broadcast_div(&row_sums): every cell over the sum of its row.
Normalized(t, n) ==
    [ij \in (0..(n - 1)) \X (0..(n - 1)) |-> F32Div(t[ij], RowSum(t, n, ij[1]))]

\* --------------------------------------------------------------- sampling

\* f32 addition and subtraction; the weights of the model are few and small
\* enough for both to be exact.  NaN absorbs.
F32Plus(a, b) == IF a.nan \/ b.nan THEN NaN ELSE F32(a.q + b.q)

F32Minus(a, b) == IF a.nan \/ b.nan THEN NaN ELSE F32(a.q - b.q)

\* The columns of a matrix one after the other.
flatten_all_ColumnMajor(t, rows, cols) ==
    [k \in 1..(rows * cols) |-> t[<<(k - 1) % rows, (k - 1) \div rows>>]]

\* probs.flatten_all()?.to_vec1::<f32>(): the rows of a matrix one after the
\* other.
flatten_all(t, rows, cols) ==
    [k \in 1..(rows * cols) |-> t[<<(k - 1) \div cols, (k - 1) % cols>>]]

\* A tensor of one dimension, and one of two: its dims and its cells.
Vector(p) == [dims |-> <<Len(p)>>, cell |-> p]

Matrix(rows, cols, m) == [dims |-> <<rows, cols>>, cell |-> m]

\* let mut p = if probs.dims().len() > 1 { flatten_all } else { to_vec1 }
ToVec(probs) ==
    IF Len(probs.dims) > 1
    THEN flatten_all(probs.cell, probs.dims[1], probs.dims[2])
    ELSE probs.cell

\* The running sum of the loop that fills cumulative, after i entries.
RECURSIVE RunningSum(_, _)
RunningSum(p, i) ==
    IF i = 0 THEN F32(0) ELSE F32Plus(RunningSum(p, i - 1), p[i])

\* for (i, &prob) in p.iter().enumerate() { sum += prob; cumulative[i] = sum; }
Cumulative(p) == [i \in 1..Len(p) |-> RunningSum(p, i)]

\* r = rng.gen::<f32>() * sum with the uniform value in [0, 1): NaN when sum
\* is NaN, otherwise a value in [0, sum), and 0 when sum is 0.  One value is
\* taken for each way r can lie among the cumulative sums: on one of them, or
\* just below one (positive weights are at least two units).
Draws(cumulative, sum) ==
    IF sum.nan THEN {NaN}
    ELSE {F32(x) :
            x \in {y \in {0} \cup {cumulative[i].q : i \in DOMAIN cumulative}
                         \cup {cumulative[i].q - 1 : i \in DOMAIN cumulative} :
                      y >= 0 /\ (y < sum.q \/ y = 0)}}

\* cum.partial_cmp(&r).unwrap() panics when either side is NaN; the search
\* of a non-empty slice compares r at least once.
SearchPanics(cumulative, r) ==
    /\ Len(cumulative) > 0
    /\ r.nan \/ \E i \in DOMAIN cumulative : cumulative[i].nan

\* The first index whose cumulative sum is not less than r.
LowerBound(cumulative, r) ==
    Cardinality({i \in DOMAIN cumulative : cumulative[i].q < r.q})

\* cumulative.binary_search_by(..) followed by Ok(idx) => idx, Err(idx) => idx:
\* the 0-based indices it may give.  Ok(idx) is any index whose entry equals
\* r ("if there are multiple matches, then any one of the matches could be
\* returned"); Err(idx) is the insertion point.
BinarySearch(cumulative, r) ==
    LET matches == {i \in DOMAIN cumulative : cumulative[i].q = r.q}
    IN  IF matches # {} THEN {i - 1 : i \in matches}
        ELSE {LowerBound(cumulative, r)}

\* The distributions handed to multinomial: probs of one dimension.
Distributions ==
    UNION {[1..n -> {F32(w + w) : w \in 0..MaxWeight}] : n \in 0..MaxDistLen}

\* The matrices handed to multinomial: probs of two dimensions, every cell
\* zero or one and the same positive weight.
Matrices ==
    UNION {{Matrix(rows, cols, m) :
                m \in [(0..(rows - 1)) \X (0..(cols - 1)) -> {F32(0), F32(2)}]} :
           rows \in 1..MaxRows, cols \in 1..MaxCols}

\* if !replacement { .. }: the draw is followed by the update of p, sum and
\* cumulative.
UpdatesDistribution_Always(replacement) == TRUE

UpdatesDistribution(replacement) == ~replacement

\* ------------------------------------------------------------------ state

VARIABLES
    names,          \* the corpus the caller holds
    vocabulary,     \* BigramModel.vocabulary
    counts,         \* BigramModel.counts
    count_tensor,   \* BigramModel.count_tensor
    probabilities,  \* BigramModel.probabilities
    arg,            \* the corpus handed to the latest counting call
    last_call,      \* the latest method called on the model
    outcome,        \* how it ended: "Ok" or "panic"
    pairs,          \* create_character_pairs: the (xs, ys) it returned
    s_pc,           \* multinomial: "idle", "drawing", "returned", "error", "panic"
    s_tensor,       \* multinomial: probs
    s_probs,        \* multinomial: probs as a vector, p before the draws
    s_num,          \* multinomial: num_samples
    s_replacement,  \* multinomial: replacement
    s_p,            \* multinomial: p
    s_cumulative,   \* multinomial: cumulative
    s_sum,          \* multinomial: sum
    s_r,            \* multinomial: r of the latest draw
    s_samples,      \* multinomial: samples
    c_probs,        \* concurrent calls: the probs tensor they are all given
    calls,          \* concurrent calls: the locals of the call of each thread
    g_pc,           \* generation loop: "idle", "generating", "done", "panic"
    g_ix,           \* generation loop: ix
    g_name          \* generation loop: name

modelVars == <<vocabulary, counts, count_tensor, probabilities>>

callVars == <<names, arg, last_call, outcome, pairs>>

samplerVars == <<s_pc, s_tensor, s_probs, s_num, s_replacement, s_p,
                 s_cumulative, s_sum, s_r, s_samples, c_probs, calls>>

genVars == <<g_pc, g_ix, g_name>>

vars == <<modelVars, callVars, samplerVars, genVars>>

\* BigramModel::new(names)
BigramModelNew(ns, order) ==
    [vocabulary |-> VocabularyNew(ns, order),
     counts |-> EmptyMap,
     count_tensor |-> None,
     probabilities |-> None]

\* A model just built from a corpus of the given set.
InitModel(corpora) ==
    /\ names \in corpora
    /\ \E order \in IterOrders(CharSet(names)) :
           LET m == BigramModelNew(names, order)
           IN  /\ vocabulary = m.vocabulary
               /\ counts = m.counts
               /\ count_tensor = m.count_tensor
               /\ probabilities = m.probabilities
    /\ arg = <<>>
    /\ last_call = "new"
    /\ outcome = "Ok"
    /\ pairs = <<<<>>, <<>>>>

\* The threads that call multinomial at the same time.
Threads == {1, 2}

\* The locals of a call that has not started.
NoCall ==
    [pc |-> "idle", num |-> 0, replacement |-> TRUE, p |-> <<>>,
     cumulative |-> <<>>, sum |-> F32(0), draws |-> <<>>, samples |-> <<>>]

\* No call of multinomial yet.
InitSampler ==
    /\ c_probs = Vector(<<>>)
    /\ calls = [t \in Threads |-> NoCall]
    /\ s_pc = "idle"
    /\ s_tensor = Vector(<<>>)
    /\ s_probs = <<>>
    /\ s_num = 0
    /\ s_replacement = TRUE
    /\ s_p = <<>>
    /\ s_cumulative = <<>>
    /\ s_sum = F32(0)
    /\ s_r = F32(0)
    /\ s_samples = <<>>

\* No name being generated yet.
InitGen ==
    /\ g_pc = "idle"
    /\ g_ix = 0
    /\ g_name = <<>>

Init == InitModel(Corpora) /\ InitSampler /\ InitGen

\* The corpus the caller hands to a counting call: the one the model was
\* built from.
CallArgs == {names}

\* BigramModel::compute_hashmap_frequencies(names)
compute_hashmap_frequencies(ns) ==
    /\ counts' = compute_bigram_counts(ns)
    /\ arg' = ns
    /\ last_call' = "compute_hashmap_frequencies"
    /\ outcome' = "Ok"
    /\ UNCHANGED <<names, vocabulary, count_tensor, probabilities>>
    /\ UNCHANGED <<pairs, samplerVars, genVars>>

\* BigramModel::compute_tensor_frequencies(names, device)
compute_tensor_frequencies(ns) ==
    /\ arg' = ns
    /\ last_call' = "compute_tensor_frequencies"
    /\ IF HasUnknownSymbol(vocabulary, ns)
       THEN /\ outcome' = "panic"
            /\ UNCHANGED <<counts, count_tensor>>
       ELSE /\ outcome' = "Ok"
            /\ count_tensor' = Some(BigramTensor(vocabulary, ns))
            /\ counts' = sync_counts_from_tensor(vocabulary,
                                                 BigramTensor(vocabulary, ns))
    /\ UNCHANGED <<names, vocabulary, probabilities>>
    /\ UNCHANGED <<pairs, samplerVars, genVars>>

\* compute_probabilities that also empties the hashmap of counts.
compute_probabilities_ClearsCounts ==
    /\ last_call' = "compute_probabilities"
    /\ IF count_tensor = None
       THEN /\ outcome' = "panic"
            /\ UNCHANGED <<probabilities, counts>>
       ELSE /\ outcome' = "Ok"
            /\ counts' = EmptyMap
            /\ probabilities' =
                   Some(Normalized(count_tensor.value, get_size(vocabulary)))
    /\ UNCHANGED <<names, vocabulary, count_tensor, arg>>
    /\ UNCHANGED <<pairs, samplerVars, genVars>>

\* BigramModel::compute_probabilities()
compute_probabilities ==
    /\ last_call' = "compute_probabilities"
    /\ IF count_tensor = None
       THEN /\ outcome' = "panic"
            /\ UNCHANGED probabilities
       ELSE /\ outcome' = "Ok"
            /\ probabilities' =
                   Some(Normalized(count_tensor.value, get_size(vocabulary)))
    /\ UNCHANGED <<names, vocabulary, counts, count_tensor, arg>>
    /\ UNCHANGED <<pairs, samplerVars, genVars>>

Next ==
    \/ \E ns \in CallArgs : compute_hashmap_frequencies(ns)
    \/ \E ns \in CallArgs : compute_tensor_frequencies(ns)
    \/ compute_probabilities

Spec == Init /\ [][Next]_vars

\* ------------------------------------------------- create_character_pairs

\* char_to_index: '.' is 0 and 'a' to 'z' are 1 to 26 (c as u8 - b'a' + 1);
\* every character of Chars is one of these.
char_to_index(c) == IF c = "." THEN 0 ELSE CodePoint(c) - CodePoint("a") + 1

\* format!(".{}.", word).chars().collect()
Padded(word) == <<".">> \o word \o <<".">>

\* create_character_pairs(words): the loop runs over &words[..1], which
\* panics on an empty slice and is the first word otherwise; every window of
\* the padded word pushes one index to xs and one to ys.
create_character_pairs(words) ==
    /\ arg' = words
    /\ last_call' = "create_character_pairs"
    /\ IF Len(words) < 1
       THEN /\ outcome' = "panic"
            /\ UNCHANGED pairs
       ELSE LET ws == Windows(Padded(words[1]))
            IN  /\ outcome' = "Ok"
                /\ pairs' = <<[k \in DOMAIN ws |-> char_to_index(ws[k][1])],
                              [k \in DOMAIN ws |-> char_to_index(ws[k][2])]>>
    /\ UNCHANGED <<names, modelVars, samplerVars, genVars>>

\* The words handed to create_character_pairs are the names the caller holds.
NextPairs == \E words \in CallArgs : create_character_pairs(words)

SpecPairs == Init /\ [][NextPairs]_vars

\* ------------------------------------------------- multinomial, step by step

\* BigramModel::multinomial(probs, num_samples, replacement), up to the loop
\* of draws: the length check, samples, cumulative and sum.
MultinomialCall(probs, num_samples, replacement) ==
    /\ s_pc = "idle"
    /\ s_tensor' = probs
    /\ s_probs' = ToVec(probs)
    /\ s_num' = num_samples
    /\ s_replacement' = replacement
    /\ s_samples' = <<>>
    /\ s_r' = F32(0)
    /\ s_p' = ToVec(probs)
    /\ IF ~replacement /\ num_samples > Len(ToVec(probs))
       THEN /\ s_pc' = "error"
            /\ s_cumulative' = <<>>
            /\ s_sum' = F32(0)
       ELSE /\ s_pc' = IF num_samples = 0 THEN "returned" ELSE "drawing"
            /\ s_cumulative' = Cumulative(ToVec(probs))
            /\ s_sum' = RunningSum(ToVec(probs), Len(ToVec(probs)))
    /\ UNCHANGED <<c_probs, calls>>
    /\ UNCHANGED <<modelVars, callVars, genVars>>

\* One pass of the loop of draws, and the return after the last one.
MultinomialDraw ==
    /\ s_pc = "drawing"
    /\ \E r \in Draws(s_cumulative, s_sum) :
        /\ s_r' = r
        /\ IF SearchPanics(s_cumulative, r)
           THEN /\ s_pc' = "panic"
                /\ UNCHANGED <<s_p, s_cumulative, s_sum, s_samples>>
           ELSE \E selected_idx \in BinarySearch(s_cumulative, r) :
                    /\ s_samples' = Append(s_samples, selected_idx)
                    /\ IF ~UpdatesDistribution(s_replacement)
                       THEN /\ s_pc' = IF Len(s_samples) + 1 = s_num
                                       THEN "returned" ELSE "drawing"
                            /\ UNCHANGED <<s_p, s_cumulative, s_sum>>
                       ELSE IF selected_idx >= Len(s_p)
                            THEN /\ s_pc' = "panic"
                                 /\ UNCHANGED <<s_p, s_cumulative, s_sum>>
                            ELSE /\ s_pc' = IF Len(s_samples) + 1 = s_num
                                            THEN "returned" ELSE "drawing"
                                 /\ s_sum' = F32Minus(s_sum, s_p[selected_idx + 1])
                                 /\ s_p' = [s_p EXCEPT ![selected_idx + 1] = F32(0)]
                                 /\ s_cumulative' =
                                        Cumulative([s_p EXCEPT
                                                      ![selected_idx + 1] = F32(0)])
    /\ UNCHANGED <<s_tensor, s_probs, s_num, s_replacement>>
    /\ UNCHANGED <<c_probs, calls>>
    /\ UNCHANGED <<modelVars, callVars, genVars>>

\* The caller has the result of the call (the tensor of samples, the Err or
\* the panic); the locals of the call are gone.
MultinomialEnd ==
    /\ s_pc \in {"returned", "error", "panic"}
    /\ s_pc' = "idle"
    /\ s_tensor' = Vector(<<>>)
    /\ s_probs' = <<>>
    /\ s_num' = 0
    /\ s_replacement' = TRUE
    /\ s_p' = <<>>
    /\ s_cumulative' = <<>>
    /\ s_sum' = F32(0)
    /\ s_r' = F32(0)
    /\ s_samples' = <<>>
    /\ UNCHANGED <<c_probs, calls>>
    /\ UNCHANGED <<modelVars, callVars, genVars>>

\* A model built from the empty corpus, on which multinomial is called.
InitSampling == InitModel({<<>>}) /\ InitSampler /\ InitGen

NextSampling ==
    \/ \E probs \in Distributions, num_samples \in 0..MaxSamples,
          replacement \in BOOLEAN :
           MultinomialCall(Vector(probs), num_samples, replacement)
    \/ MultinomialDraw
    \/ MultinomialEnd

SpecSampling == InitSampling /\ [][NextSampling]_vars

\* multinomial(&probs, 1, ..): the one sample the callers ask of a matrix.
OneSample == 1

\* multinomial called on matrices.
NextMatrixSampling ==
    \/ \E probs \in Matrices, replacement \in BOOLEAN :
           MultinomialCall(probs, OneSample, replacement)
    \/ MultinomialDraw
    \/ MultinomialEnd

SpecMatrixSampling == InitSampling /\ [][NextMatrixSampling]_vars

\* ------------------------------------------- multinomial, concurrent calls

\* The distributions concurrent calls sample: every weight zero or one and
\* the same positive weight.
ThreadDistributions ==
    {Vector(p) : p \in UNION {[1..n -> {F32(0), F32(2)}] : n \in 0..MaxThreadLen}}

\* Every thread reads and writes the locals of the first thread.
Frame_Shared(t) == 1

\* let mut p, let mut cumulative, let mut sum, let mut samples: the locals
\* a call reads and writes are those of its own frame.
Frame(t) == t

singleVars == <<s_pc, s_tensor, s_probs, s_num, s_replacement, s_p,
                s_cumulative, s_sum, s_r, s_samples>>

\* Thread t calls multinomial(&c_probs, num_samples, replacement): the code up
\* to the loop of draws.
ThreadCall(t, num_samples, replacement) ==
    /\ calls[t].pc = "idle"
    /\ calls' =
           [calls EXCEPT ![t] =
               IF ~replacement /\ num_samples > Len(ToVec(c_probs))
               THEN [NoCall EXCEPT !.pc = "error", !.num = num_samples,
                                   !.replacement = replacement,
                                   !.p = ToVec(c_probs)]
               ELSE [pc |-> IF num_samples = 0 THEN "returned" ELSE "drawing",
                     num |-> num_samples,
                     replacement |-> replacement,
                     p |-> ToVec(c_probs),
                     cumulative |-> Cumulative(ToVec(c_probs)),
                     sum |-> RunningSum(ToVec(c_probs), Len(ToVec(c_probs))),
                     draws |-> <<>>,
                     samples |-> <<>>]]
    /\ UNCHANGED <<c_probs, singleVars>>
    /\ UNCHANGED <<modelVars, callVars, genVars>>

\* One pass of the loop of draws of thread t, and the return after the last.
ThreadDraw(t) ==
    /\ calls[t].pc = "drawing"
    /\ LET f == Frame(t)
           cumulative == calls[f].cumulative
           p == calls[f].p
           sum == calls[f].sum
       IN  \E r \in Draws(cumulative, sum) :
               IF SearchPanics(cumulative, r)
               THEN calls' = [calls EXCEPT ![t].pc = "panic",
                                           ![t].draws = Append(@, r)]
               ELSE \E selected_idx \in BinarySearch(cumulative, r) :
                        LET more == Len(calls[t].samples) + 1 # calls[t].num
                            next == IF more THEN "drawing" ELSE "returned"
                        IN  IF ~UpdatesDistribution(calls[t].replacement)
                            THEN calls' =
                                   [calls EXCEPT
                                      ![t].draws = Append(@, r),
                                      ![t].samples = Append(@, selected_idx),
                                      ![t].pc = next]
                            ELSE IF selected_idx >= Len(p)
                            THEN calls' =
                                   [calls EXCEPT
                                      ![t].draws = Append(@, r),
                                      ![t].samples = Append(@, selected_idx),
                                      ![t].pc = "panic"]
                            ELSE calls' =
                                   [calls EXCEPT
                                      ![t].draws = Append(@, r),
                                      ![t].samples = Append(@, selected_idx),
                                      ![t].pc = next,
                                      ![f].sum = F32Minus(sum, p[selected_idx + 1]),
                                      ![f].p = [p EXCEPT
                                                  ![selected_idx + 1] = F32(0)],
                                      ![f].cumulative =
                                          Cumulative([p EXCEPT
                                                        ![selected_idx + 1] = F32(0)])]
    /\ UNCHANGED <<c_probs, singleVars>>
    /\ UNCHANGED <<modelVars, callVars, genVars>>

\* A model and a tensor of weights that the threads share.
InitConcurrent ==
    /\ InitModel({<<>>})
    /\ InitGen
    /\ s_pc = "idle"
    /\ s_tensor = Vector(<<>>)
    /\ s_probs = <<>>
    /\ s_num = 0
    /\ s_replacement = TRUE
    /\ s_p = <<>>
    /\ s_cumulative = <<>>
    /\ s_sum = F32(0)
    /\ s_r = F32(0)
    /\ s_samples = <<>>
    /\ c_probs \in ThreadDistributions
    /\ calls = [t \in Threads |-> NoCall]

NextConcurrent ==
    \/ \E t \in Threads, num_samples \in 0..MaxThreadSamples,
          replacement \in BOOLEAN :
           ThreadCall(t, num_samples, replacement)
    \/ \E t \in Threads : ThreadDraw(t)

SpecConcurrent == InitConcurrent /\ [][NextConcurrent]_vars

\* ------------------------------------------------------ the generation loop

\* model.get_vocabulary().get_char(ix)
get_char(v, ix) == v.chars[ix + 1]

\* let mut name = Vec::new(); let mut ix = 0;  The model has been trained:
\* get_probabilities() gives the probability matrix.
GenStart ==
    /\ g_pc \in {"idle", "done"}
    /\ probabilities.is_some
    /\ g_pc' = "generating"
    /\ g_ix' = 0
    /\ g_name' = <<>>
    /\ UNCHANGED <<modelVars, callVars, samplerVars>>

\* One pass of the loop: multinomial(&probs, 1, true) on the whole matrix,
\* the sample taken modulo the vocabulary size, the symbol pushed, and the
\* break on index 0.  The loop has no other exit; the model follows it for
\* SafetyBound passes.
GenStep ==
    /\ g_pc = "generating"
    /\ Len(g_name) < SafetyBound
    /\ LET size == get_size(vocabulary)
           p == flatten_all(probabilities.value, size, size)
           cumulative == Cumulative(p)
           sum == RunningSum(p, Len(p))
       IN  \E r \in Draws(cumulative, sum) :
               IF SearchPanics(cumulative, r)
               THEN /\ g_pc' = "panic"
                    /\ UNCHANGED <<g_ix, g_name>>
               ELSE \E selected_idx \in BinarySearch(cumulative, r) :
                        /\ g_ix' = selected_idx % size
                        /\ g_name' = Append(g_name,
                                            get_char(vocabulary, selected_idx % size))
                        /\ g_pc' = IF selected_idx % size = 0
                                   THEN "done" ELSE "generating"
    /\ UNCHANGED <<modelVars, callVars, samplerVars>>

\* A model built from a small corpus, trained, and names generated from it.
InitGeneration ==
    InitModel(CorporaUpTo(MaxGenWindows)) /\ InitSampler /\ InitGen

NextGeneration ==
    \/ g_pc = "idle" /\ Next
    \/ GenStart
    \/ GenStep

SpecGeneration == InitGeneration /\ [][NextGeneration]_vars

\* ------------------------------------- a model handed corpora of any kind

\* names: &[NameItem] of the counting calls is any slice, not only the one
\* the model was built from.
AnyCorpora == CorporaUpTo(MaxCallWindows)

InitAnyCorpus == InitModel(AnyCorpora) /\ InitSampler /\ InitGen

NextAnyCorpus ==
    \/ \E ns \in AnyCorpora : compute_hashmap_frequencies(ns)
    \/ \E ns \in AnyCorpora : compute_tensor_frequencies(ns)
    \/ compute_probabilities

SpecAnyCorpus == InitAnyCorpus /\ [][NextAnyCorpus]_vars

\* ------------------------------------------------- helpers of the claims

\* The sum of the values of a function with a finite domain.
RECURSIVE SumOn(_, _)
SumOn(f, D) ==
    IF D = {} THEN 0
    ELSE LET x == CHOOSE x \in D : TRUE IN f[x] + SumOn(f, D \ {x})

SumValues(f) == SumOn(f, DOMAIN f)

RECURSIVE TotalChars(_)
TotalChars(ns) ==
    IF ns = <<>> THEN 0 ELSE Len(Head(ns)) + TotalChars(Tail(ns))

\* Every ordering of a sequence.
Orderings(s) ==
    {[k \in 1..Len(s) |-> s[p[k]]] :
        p \in {q \in [1..Len(s) -> 1..Len(s)] :
                  \A a, b \in 1..Len(s) : q[a] = q[b] => a = b}}

\* The positions of the corpus, each name wrapped in boundary symbols, where
\* symbol a is immediately followed by symbol b.
Transitions(ns, a, b) ==
    {<<n, k>> \in (DOMAIN ns) \X (1..(MaxWindows + 1)) :
        /\ k <= Len(ns[n]) + 1
        /\ (<<".">> \o ns[n] \o <<".">>)[k] = a
        /\ (<<".">> \o ns[n] \o <<".">>)[k + 1] = b}

Counted == last_call = "compute_tensor_frequencies" /\ outcome = "Ok"

Hashed == last_call = "compute_hashmap_frequencies" /\ outcome = "Ok"

Normalised == last_call = "compute_probabilities" /\ outcome = "Ok"

VocabSize == get_size(vocabulary)

Indices == 0..(VocabSize - 1)

\* ----------------------------------------------------------------- claims

\* C1: count conservation.  After compute_tensor_frequencies(names) the cells
\* of the count matrix sum to (characters of the corpus) + (number of names),
\* and after compute_hashmap_frequencies(names) so do the values of the map.
CountConservation ==
    /\ Counted =>
           SumValues(count_tensor.value) = TotalChars(arg) + Len(arg)
    /\ Hashed => SumValues(counts) = TotalChars(arg) + Len(arg)

\* C1 witness: both counts taken of a corpus of two names and four characters.
CountConservationWitness ==
    /\ Hashed
    /\ count_tensor.is_some
    /\ Len(arg) = 2
    /\ TotalChars(arg) = 4

\* C2 (as claimed): cell (i, j) of the count matrix is the number of positions
\* where symbol i, chars[i], is immediately followed by symbol j, chars[j].
CellCountsTransitions ==
    Counted =>
        \A i, j \in Indices :
            count_tensor.value[<<i, j>>] =
                Cardinality(Transitions(arg, vocabulary.chars[i + 1],
                                             vocabulary.chars[j + 1]))

\* C3: row-stochastic.  After compute_probabilities every row whose counts
\* sum to a positive number holds count / row sum in each cell (to f32
\* rounding: within half a unit of 2^-24) and sums to 1 within 1e-5.
RowStochastic ==
    Normalised =>
        \A i \in Indices :
            LET t == count_tensor.value
                P == probabilities.value
                sum == RowSum(t, VocabSize, i)
                total == SumTo([j \in Indices |-> P[<<i, j>>].q], VocabSize - 1)
                diff == IF total > F32Exact THEN total - F32Exact
                        ELSE F32Exact - total
            IN  sum > 0 =>
                    /\ \A j \in Indices :
                           /\ ~P[<<i, j>>].nan
                           /\ 2 * (P[<<i, j>>].q * sum - t[<<i, j>>] * F32Exact)
                                  <= sum
                           /\ 2 * (t[<<i, j>>] * F32Exact - P[<<i, j>>].q * sum)
                                  <= sum
                    /\ diff * 100000 <= F32Exact

\* C3 witness: a normalised row of thirds, whose cells do not sum to exactly 1.
RowStochasticWitness ==
    /\ Normalised
    /\ \E i \in Indices :
           /\ RowSum(count_tensor.value, VocabSize, i) = 3
           /\ SumTo([j \in Indices |-> probabilities.value[<<i, j>>].q],
                    VocabSize - 1) # F32Exact

\* C7 (as claimed): no symbol occurs twice in chars, "." occurs exactly once,
\* and the size is the number of distinct non-boundary characters plus one.
NoDuplicateSymbols ==
    /\ \A i, j \in Indices :
           vocabulary.chars[i + 1] = vocabulary.chars[j + 1] => i = j
    /\ Cardinality({i \in Indices : vocabulary.chars[i + 1] = "."}) = 1
    /\ VocabSize = Cardinality(CharSet(names) \ {"."}) + 1

\* C8 (as claimed): the two lookups are mutually inverse.
LookupsInverse ==
    /\ \A i \in Indices : vocabulary.char_to_idx[vocabulary.chars[i + 1]] = i
    /\ \A c \in DOMAIN vocabulary.char_to_idx :
           vocabulary.chars[vocabulary.char_to_idx[c] + 1] = c

\* C9 (as claimed): "." is at index 0 both ways, the other symbols follow in
\* strictly ascending code-point order, and every ordering of the names (and
\* of the set of characters) gives the same sequence.
BoundaryFirstSorted ==
    /\ vocabulary.chars[1] = "."
    /\ vocabulary.char_to_idx["."] = 0
    /\ \A i \in Indices :
           i >= 1 =>
               /\ vocabulary.chars[i + 1] # "."
               /\ i >= 2 => CodePoint(vocabulary.chars[i])
                                < CodePoint(vocabulary.chars[i + 1])
    /\ \A o \in Orderings(names) :
           \A order \in IterOrders(CharSet(o)) :
               build_chars(o, order) = vocabulary.chars

\* C10: order independence.  Every ordering of the counted corpus gives the
\* same count matrix, and the same hashmap.
OrderIndependence ==
    /\ Counted =>
           \A o \in Orderings(arg) :
               BigramTensor(vocabulary, o) = count_tensor.value
    /\ Hashed => \A o \in Orderings(arg) : compute_bigram_counts(o) = counts

\* C10 witness: both counts taken of a corpus of two different names.
OrderIndependenceWitness ==
    /\ Hashed
    /\ count_tensor.is_some
    /\ Len(arg) = 2
    /\ arg[1] # arg[2]
    /\ arg[1] # <<>>
    /\ arg[2] # <<>>

\* The 0-based indices of the strictly positive weights of a distribution.
PositiveIndices(p) == {i - 1 : i \in {k \in DOMAIN p : ~p[k].nan /\ p[k].q > 0}}

\* C4 (as claimed): N draws without replacement from a distribution with
\* exactly N strictly positive weights return the N positive-weight indices,
\* each once, whatever the uniform draws.
ExhaustsPositiveWeights ==
    (/\ s_pc = "returned"
     /\ ~s_replacement
     /\ s_num = Cardinality(PositiveIndices(s_probs)))
        => /\ Len(s_samples) = s_num
           /\ Range(s_samples) = PositiveIndices(s_probs)

\* C6 (as claimed): without replacement, a call asking for more samples than
\* there are strictly positive weights ends in an error and gives no samples.
InsufficientSupportFails ==
    (/\ s_pc # "idle"
     /\ ~s_replacement
     /\ s_num > Cardinality(PositiveIndices(s_probs)))
        => s_pc = "error" /\ s_samples = <<>>

\* The corpus with one more empty name, put before position k + 1.
WithEmptyName(ns, k) ==
    [m \in 1..(Len(ns) + 1) |->
        IF m <= k THEN ns[m] ELSE IF m = k + 1 THEN <<>> ELSE ns[m - 1]]

\* The cell of the boundary symbol: the index char_to_idx gives ".", twice.
BoundaryCell == <<vocabulary.char_to_idx["."], vocabulary.char_to_idx["."]>>

\* C11: an empty name contributes exactly one transition, boundary to
\* boundary.  Counting the corpus [""] gives cell (., .) = 1 and nothing else;
\* one more empty name, anywhere in the counted corpus, raises cell (., .) by
\* exactly 1 and leaves every other cell as it is, in the count matrix and in
\* the hashmap alike.
EmptyNameOneTransition ==
    /\ (Counted /\ arg = << <<>> >>) =>
           count_tensor.value = [ij \in {<<0, 0>>} |-> 1]
    /\ Counted =>
           /\ vocabulary.chars[BoundaryCell[1] + 1] = "."
           /\ \A k \in 0..Len(arg) :
                  BigramTensor(vocabulary, WithEmptyName(arg, k)) =
                      [count_tensor.value EXCEPT ![BoundaryCell] = @ + 1]
    /\ Hashed =>
           \A k \in 0..Len(arg) :
               compute_bigram_counts(WithEmptyName(arg, k)) =
                   EntryIncrement(counts, <<".", ".">>)

\* C11 witness: the count matrix of a corpus of an empty name and a name that
\* is not empty.
EmptyNameOneTransitionWitness ==
    /\ Counted
    /\ Len(arg) = 2
    /\ arg[1] = <<>>
    /\ arg[2] # <<>>
    /\ count_tensor.value[BoundaryCell] = 1

\* C12 (as claimed): compute_tensor_frequencies handed a name with a character
\* that is not in the vocabulary returns an error to its caller, and the
\* count matrix of the model is the one it was before the call.
UnknownSymbolIsError ==
    [][(/\ last_call' = "compute_tensor_frequencies"
        /\ HasUnknownSymbol(vocabulary, arg'))
           => /\ outcome' = "Err"
              /\ count_tensor' = count_tensor]_vars

\* The rows of the stored count matrix whose cells sum to 0.
ZeroRows == {i \in Indices : RowSum(count_tensor.value, VocabSize, i) = 0}

\* C13 (as claimed): zero-row policy.  When compute_probabilities returns Ok
\* on a count matrix with a row that sums to 0, that row of the probability
\* matrix is all zeros or uniform; none of its cells is the undefined 0/0.
ZeroRowPolicy ==
    Normalised =>
        \A i \in ZeroRows :
            \/ \A j \in Indices : probabilities.value[<<i, j>>] = F32(0)
            \/ \A j \in Indices :
                   probabilities.value[<<i, j>>] = F32Div(1, VocabSize)

\* C20 (as claimed): whenever a probability matrix is stored, it is the
\* row-normalisation of the count matrix that is stored.
ProbabilitiesFollowCounts ==
    probabilities.is_some =>
        /\ count_tensor.is_some
        /\ probabilities.value = Normalized(count_tensor.value, VocabSize)

\* C14 (as claimed): inverse-CDF selection with the lower index on ties.  A
\* draw r in [0, total) selects the smallest index whose cumulative sum is at
\* least r, also when several cumulative sums equal r.
SelectsLowestIndex ==
    [][(/\ s_pc = "drawing"
        /\ s_samples' # s_samples
        /\ s_r'.q < s_sum.q)
           => s_samples'[Len(s_samples')] = LowerBound(s_cumulative, s_r')]_vars

\* C17: with replacement the distribution is unchanged between draws.  The
\* weights, the cumulative array and the sum that the next draw consults are
\* those of the first draw, whatever has been drawn.
ReplacementKeepsDistribution ==
    (s_replacement /\ s_pc \in {"drawing", "returned"}) =>
        /\ s_p = s_probs
        /\ s_cumulative = Cumulative(s_probs)
        /\ s_sum = RunningSum(s_probs, Len(s_probs))

\* C17 witness: two draws with replacement have given the same index, one of
\* positive weight, twice.
ReplacementKeepsDistributionWitness ==
    /\ s_replacement
    /\ s_pc = "returned"
    /\ Len(s_samples) = 2
    /\ Cardinality(PositiveIndices(s_probs)) >= 2
    /\ s_samples[1] \in PositiveIndices(s_probs)
    /\ s_samples[1] = s_samples[2]

\* The sum of all the cells of a matrix of weights.
SumOfCells(m) == SumValues([ij \in DOMAIN m |-> m[ij].q])

\* C18: a matrix of R rows and C columns is sampled as one distribution of
\* length R * C, its rows one after the other.  Entry k of the vector is cell
\* (k div C, k mod C), the draw is scaled by the sum of all the cells, and
\* every sample is an index in [0, R * C).
SamplesFlattenedMatrix ==
    (Len(s_tensor.dims) = 2 /\ s_pc \in {"drawing", "returned"}) =>
        LET R == s_tensor.dims[1]
            C == s_tensor.dims[2]
        IN  /\ Len(s_probs) = R * C
            /\ \A k \in 0..(R * C - 1) :
                   s_probs[k + 1] = s_tensor.cell[<<k \div C, k % C>>]
            /\ s_cumulative = Cumulative(s_p)
            /\ s_samples = <<>> => s_sum = F32(SumOfCells(s_tensor.cell))
            /\ s_samples # <<>> =>
                   \/ s_r.q < SumOfCells(s_tensor.cell)
                   \/ SumOfCells(s_tensor.cell) = 0 /\ s_r = F32(0)
            /\ \A n \in DOMAIN s_samples :
                   /\ s_samples[n] \in 0..(R * C - 1)
                   /\ s_replacement =>
                          s_cumulative[s_samples[n] + 1].q >= s_r.q

\* C18 witness: the sample of a matrix of two rows and two columns is index
\* 2, cell (1, 0), whose weight is positive while that of cell (0, 1) is zero,
\* and the draw is above the sum of every single row.
SamplesFlattenedMatrixWitness ==
    /\ s_pc = "returned"
    /\ s_tensor.dims = <<2, 2>>
    /\ s_samples = <<2>>
    /\ s_tensor.cell[<<1, 0>>].q > 0
    /\ s_tensor.cell[<<0, 1>>].q = 0
    /\ s_tensor.cell[<<0, 0>>].q > 0
    /\ s_r.q >= 2

\* C15 (as claimed): every pass of the generation loop samples the next
\* symbol from the row of the current one.  The current index is 0 at the
\* start and the sampled index afterwards, so the cell (current, sampled) of
\* the probability matrix is positive at every pass.
SamplesFromCurrentRow ==
    [][(g_pc = "generating" /\ g_name' # g_name)
           => /\ ~probabilities.value[<<g_ix, g_ix'>>].nan
              /\ probabilities.value[<<g_ix, g_ix'>>].q > 0]_vars

\* C16 (as claimed): the generated string holds no boundary symbol, and the
\* model built from the corpus [""] generates the empty string.
NameWithoutBoundary ==
    g_pc = "done" =>
        /\ "." \notin Range(g_name)
        /\ names = << <<>> >> => g_name = <<>>

\* C19: compute_probabilities does not mutate its input.  Across a call the
\* count matrix, the hashmap of counts and the vocabulary stay what they
\* were; only the probabilities field is written.
ProbabilitiesCallFrame ==
    [][last_call' = "compute_probabilities"
           => /\ vocabulary' = vocabulary
              /\ counts' = counts
              /\ count_tensor' = count_tensor]_vars

\* C19 witness: probabilities computed on a model that holds a count matrix
\* and a hashmap of counts, neither of them empty.
ProbabilitiesCallFrameWitness ==
    /\ Normalised
    /\ counts # EmptyMap
    /\ SumValues(count_tensor.value) >= 3
    /\ probabilities.is_some

\* C21 (as claimed): the lifecycle state is checked at entry.
\* compute_probabilities on a model whose count matrix was never computed
\* returns an error to its caller, the probabilities stay absent and the rest
\* of the model is unchanged.
UncountedIsError ==
    [][(last_call' = "compute_probabilities" /\ ~count_tensor.is_some)
           => /\ outcome' = "Err"
              /\ ~probabilities'.is_some
              /\ UNCHANGED <<vocabulary, counts, count_tensor>>]_vars

\* The samples a call may return when it runs alone on the weights p and its
\* draws are the given ones.
RECURSIVE AloneFrom(_, _, _, _)
AloneFrom(p, replacement, draws, samples) ==
    IF draws = <<>> THEN {samples}
    ELSE UNION {AloneFrom(IF replacement THEN p
                          ELSE [k \in DOMAIN p |->
                                   IF k = i + 1 THEN F32(0) ELSE p[k]],
                          replacement, Tail(draws), Append(samples, i)) :
                   i \in BinarySearch(Cumulative(p), Head(draws))}

\* C22: multinomial is read-only and its calls are independent.  No step of a
\* call changes the vocabulary, the counts, the count matrix, the probability
\* matrix or the tensor of weights it is given, and under every interleaving
\* of two calls on the same tensor the samples of each call are samples the
\* call gives alone with the same draws.
CallsIndependent ==
    /\ [][UNCHANGED <<modelVars, c_probs>>]_vars
    /\ [](\A t \in Threads :
             calls[t].pc \in {"drawing", "returned"} =>
                 calls[t].samples \in
                     AloneFrom(ToVec(c_probs), calls[t].replacement,
                               calls[t].draws, <<>>))

\* C22 witness: both calls have returned two samples of the same weights,
\* the first without replacement (its own weights are changed) and the second
\* with replacement (its weights are not).
CallsIndependentWitness ==
    /\ \A t \in Threads : calls[t].pc = "returned" /\ Len(calls[t].samples) = 2
    /\ ~calls[1].replacement
    /\ calls[2].replacement
    /\ calls[1].p # ToVec(c_probs)
    /\ calls[2].p = ToVec(c_probs)
    /\ calls[2].samples[1] = calls[1].samples[1]

\* C23: for a model built by BigramModel::new(names), every character of
\* every name is a key of char_to_idx, so compute_tensor_frequencies(names)
\* on that corpus meets no unknown symbol and returns Ok with a count matrix.
CorpusSymbolsKnown ==
    /\ \A n \in DOMAIN names :
           \A k \in DOMAIN names[n] :
               names[n][k] \in DOMAIN vocabulary.char_to_idx
    /\ "." \in DOMAIN vocabulary.char_to_idx
    /\ (last_call = "compute_tensor_frequencies" /\ arg = names) =>
           /\ outcome = "Ok"
           /\ count_tensor.is_some

\* C23 witness: the corpus of a model, two names that share no character,
\* counted by compute_tensor_frequencies.
CorpusSymbolsKnownWitness ==
    /\ last_call = "compute_tensor_frequencies"
    /\ arg = names
    /\ Len(names) = 2
    /\ Len(names[1]) >= 1
    /\ Len(names[2]) >= 2
    /\ Range(names[1]) \cap Range(names[2]) = {}

\* C24 (as claimed): create_character_pairs(words) returns, for every word of
\* words in order, one (input, target) pair for each adjacent pair of
\* characters of '.' + word + '.': xs and ys are as long as the sum over all
\* words of (length + 1), and ys[k] is the index of the character that
\* follows the one xs[k] is the index of.
PairsOfEveryWord ==
    last_call = "create_character_pairs" =>
        LET ws == AllWindows(arg)
        IN  /\ outcome = "Ok"
            /\ Len(pairs[1]) = TotalChars(arg) + Len(arg)
            /\ pairs[1] = [k \in DOMAIN ws |-> char_to_index(ws[k][1])]
            /\ pairs[2] = [k \in DOMAIN ws |-> char_to_index(ws[k][2])]

\* The corpora made of consecutive names of a corpus.
SubCorpora(ns) ==
    {SubSeq(ns, i, j) : i \in 1..(Len(ns) + 1), j \in 0..Len(ns)}

\* C25: the two counting strategies agree.  The hashmap that
\* compute_tensor_frequencies stores is the one compute_hashmap_frequencies
\* computes of the same corpus, its keys exactly the pairs of symbols that
\* occur; this holds of the counted corpus and of every corpus made of
\* consecutive names of it, all within the vocabulary.
StrategiesAgree ==
    Counted =>
        /\ counts = compute_bigram_counts(arg)
        /\ DOMAIN counts = Range(AllWindows(arg))
        /\ \A ns \in SubCorpora(arg) :
               sync_counts_from_tensor(vocabulary, BigramTensor(vocabulary, ns))
                   = compute_bigram_counts(ns)

\* C25 witness: a count matrix with a cell that is zero and three that are
\* not, synchronised into the hashmap.
StrategiesAgreeWitness ==
    /\ Counted
    /\ Cardinality(DOMAIN counts) >= 3
    /\ \E ij \in DOMAIN count_tensor.value : count_tensor.value[ij] = 0
    /\ \E ij \in DOMAIN count_tensor.value : count_tensor.value[ij] = 2

\* C30: flow balance.  In the count matrix of a corpus within the vocabulary
\* the sum of row i is the sum of column i, for every index i: of the counted
\* corpus and of every corpus made of consecutive names of it.
FlowBalance ==
    Counted =>
        /\ \A i \in Indices :
               RowSum(count_tensor.value, VocabSize, i)
                   = ColSum(count_tensor.value, VocabSize, i)
        /\ \A t \in {BigramTensor(vocabulary, ns) : ns \in SubCorpora(arg)} :
               \A i \in Indices :
                   RowSum(t, VocabSize, i) = ColSum(t, VocabSize, i)

\* C30 witness: the count matrix of a corpus in which a letter occurs twice
\* and another once.
FlowBalanceWitness ==
    /\ Counted
    /\ \E i, j \in Indices :
           /\ RowSum(count_tensor.value, VocabSize, i) = 2
           /\ vocabulary.chars[i + 1] # "."
           /\ RowSum(count_tensor.value, VocabSize, j) = 1
           /\ count_tensor.value[<<i, j>>] = 1

\* C26 (as claimed): whenever a count matrix is stored the hashmap agrees
\* with it.  For every pair of symbols (a, b), counts[(a, b)] is cell
\* (index(a), index(b)) when that cell is positive and the key is absent when
\* the cell is 0; the hashmap has no other key.
HashmapFollowsTensor ==
    count_tensor.is_some =>
        /\ \A a, b \in DOMAIN vocabulary.char_to_idx :
               LET cell == count_tensor.value[<<vocabulary.char_to_idx[a],
                                                vocabulary.char_to_idx[b]>>]
               IN  IF cell > 0
                   THEN /\ <<a, b>> \in DOMAIN counts
                        /\ counts[<<a, b>>] = cell
                   ELSE <<a, b>> \notin DOMAIN counts
        /\ \A k \in DOMAIN counts :
               k[1] \in DOMAIN vocabulary.char_to_idx
                   /\ k[2] \in DOMAIN vocabulary.char_to_idx

\* C27 (as claimed): multinomial never selects an impossible outcome.  At
\* every draw made while some weight is strictly positive the selected index
\* is within the distribution and its weight at that draw is strictly
\* positive.
SelectsPositiveWeight ==
    [][(/\ s_pc = "drawing"
        /\ s_samples' # s_samples
        /\ PositiveIndices(s_p) # {})
           => s_samples'[Len(s_samples')] \in PositiveIndices(s_p)]_vars

\* C28 (as claimed): the indices a call without replacement returns are
\* pairwise distinct.
SamplesDistinct ==
    (s_pc = "returned" /\ ~s_replacement) =>
        \A m, n \in DOMAIN s_samples :
            s_samples[m] = s_samples[n] => m = n

\* C29 (as claimed): in the count matrix of a non-empty corpus, counted by
\* the model that was built from it, every row has a strictly positive sum,
\* and the probability matrix computed of it has no undefined cell.
EveryRowPositive ==
    (count_tensor.is_some /\ names # <<>>) =>
        /\ \A i \in Indices : RowSum(count_tensor.value, VocabSize, i) > 0
        /\ probabilities.is_some =>
               \A ij \in DOMAIN probabilities.value :
                   ~probabilities.value[ij].nan

\* C5 (as claimed): the generation loop ends, with a name no longer than the
\* safety bound: once the bound is reached the loop is no longer running.
TerminatesWithinBound ==
    Len(g_name) >= SafetyBound => g_pc # "generating"

====
